---- MODULE Spec2Model ----
(***************************************************************************)
(* Real-time collaboration core of the backend:                            *)
(*   backend/app/core/websocket_manager.py  (ConnectionManager)            *)
(*   backend/app/api/websockets.py          (websocket_endpoint)           *)
(*                                                                         *)
(* Specification Spec runs every handler to its end in one step: the       *)
(* coroutine is not preempted at its awaits.  Everything a handler does    *)
(* on the way (nested prune -> disconnect -> leave -> broadcast, Python's  *)
(* "Set changed size during iteration" RuntimeError, the except/finally    *)
(* blocks of the endpoint) is part of the step.                            *)
(***************************************************************************)
EXTENDS Integers, Sequences, FiniteSets, TLC

(* ---------------------------------------------------------------------- *)
(* Universe of the model                                                   *)
(* ---------------------------------------------------------------------- *)
Users == {"A", "B", "C"}
Rooms == {"r1", "r2"}
Conns == {"c1", "c2", "c3", "c4"}
Payloads == {"p1"}

\* Python's None (project_id = Query(None), exclude_user = None)
None == "None"

\* message.get("timestamp") of a ping: a client token, or None when absent
Timestamps == {"t1", "t2", None}

\* The user the auth collaborator resolves a connection's token to:
\* user A owns two devices, B and C one each.
ConnUser ==
  [c \in Conns |-> CASE c = "c1" -> "A" [] c = "c2" -> "A"
                     [] c = "c3" -> "B" [] OTHER -> "C"]

\* The iteration orders of a set of user ids: the hashes of the strings are
\* fixed when the process starts.  B and C are interchangeable (one device
\* each), so the orders are taken up to exchanging B and C; the two devices
\* of A are interchangeable, so a set of websockets is iterated in one order.
UserOrders == {<<"A", "B", "C">>, <<"B", "A", "C">>, <<"B", "C", "A">>}

\* Model bounds
MaxQueue == 1
MaxSteps == 4
MaxEnqueues == 52
MaxReaperSteps == 6
MaxProtocolSteps == 4
MaxRoomSteps == 5
MaxAsyncSteps == 8
MaxStatsSteps == 6
MaxProcessSteps == 5
TickSeconds == 200
MaxNow == 600

\* AsyncRateLimiter(max_calls, time_window) as the model constructs it
MaxCalls == 2
TimeWindow == 400

\* the largest config.max_attempts retry_async is called with
MaxAttempts == 3

\* "keep last 50" of store_offline_message
OfflineLimit == 50

\* cleanup_stale_connections: stale after more than 300 seconds
StaleSeconds == 300

(* ---------------------------------------------------------------------- *)
(* Python dict / set / list helpers                                        *)
(* ---------------------------------------------------------------------- *)
EmptyDict == [k \in {} |-> None]
DictSet(d, k, v) == [x \in (DOMAIN d) \cup {k} |-> IF x = k THEN v ELSE d[x]]
DictDel(d, k) == [x \in (DOMAIN d) \ {k} |-> d[x]]

\* all iteration orders of a set (set iteration order is hash dependent)
Orders(S) ==
  {s \in [1..Cardinality(S) -> S] : \A i, j \in 1..Cardinality(S) : i # j => s[i] # s[j]}

\* the elements of set S in the order ord lists them
InOrder(S, ord) == SelectSeq(ord, LAMBDA x : x \in S)

\* lst[:n], the other end of the list
FirstN(lst, n) ==
  IF Len(lst) <= n THEN lst ELSE SubSeq(lst, 1, n)

\* lst[-n:]
LastN(lst, n) ==
  IF Len(lst) <= n THEN lst ELSE SubSeq(lst, Len(lst) - n + 1, Len(lst))

(* ---------------------------------------------------------------------- *)
(* Messages (timestamps are kept only as the presence of stored_at)        *)
(* ---------------------------------------------------------------------- *)
Msg(type, user_id, project_id, data) ==
  [type |-> type, user_id |-> user_id, project_id |-> project_id,
   data |-> data, stored_at |-> FALSE]

UserJoinedMsg(user_id) == Msg("user_joined", user_id, None, None)
UserLeftMsg(user_id) == Msg("user_left", user_id, None, None)
CursorMsg(project_id, user_id, cursor_data) ==
  Msg("cursor_update", user_id, project_id, cursor_data)
WireframeMsg(project_id, wireframe_data, updated_by) ==
  Msg("wireframe_update", updated_by, project_id, wireframe_data)
AiResponseMsg(ai_response) == Msg("ai_response", None, None, ai_response)
OfflineWrap(message) ==
  [type |-> "offline_message", original_message |-> message, stored_at |-> FALSE]
WelcomeMsg(user_id, project_id) ==
  Msg("connection_established", user_id, project_id, None)
\* a pong that carries no timestamp
PongMsgBare(timestamp) == Msg("pong", None, None, None)
\* {"type": "pong", "timestamp": message.get("timestamp")}; the timestamp is
\* kept in the data field
PongMsg(timestamp) == Msg("pong", None, None, timestamp)
ErrorMsg(text) == Msg("error", None, None, text)

\* message["stored_at"] = ... mutates the dict the caller passed
Stamp(message) == [message EXCEPT !.stored_at = TRUE]

(* ---------------------------------------------------------------------- *)
(* State                                                                   *)
(* ---------------------------------------------------------------------- *)
VARIABLES
  active_connections,   \* dict user_id -> set of websockets
  project_rooms,        \* dict project_id -> set of user ids
  connection_metadata,  \* dict websocket -> [user_id, project_id,
                        \*                    connected_at, last_activity]
  offline_messages,     \* dict user_id -> list of messages
  endpoint,             \* websocket -> [st, project_id, joined, heard]: its
                        \* endpoint coroutine
  broken,               \* websockets whose transport raises on send
  uord,                 \* the order in which a set of user ids is iterated
  cord,                 \* the order in which a set of websockets is iterated
  steps,                \* number of steps taken
  out,                  \* websocket -> messages sent to it by the last step
  last,                 \* the last step: what ran, and the registries before it
  enqueued,             \* user_id -> the messages store_offline_message was
                        \* given for the user since the user last came online
  now,                  \* datetime.utcnow(), in seconds
  task,                 \* the coroutine suspended in a send_text, if any
  received,             \* websocket -> all messages sent to it so far, kept
                        \* where coroutines interleave
  limiter,              \* an AsyncRateLimiter: [calls, lock]
  acquirers,            \* caller -> [pc, wake]: its acquire() coroutine
  retry                 \* a call of retry_async: its inputs and locals

vars == <<active_connections, project_rooms, connection_metadata,
          offline_messages, endpoint, broken, uord, cord, steps, out, last,
          enqueued, now, task, received, limiter, acquirers, retry>>

\* the state of app/utils, which the websocket code does not use
utils == <<limiter, acquirers, retry>>

NoOut == [c \in Conns |-> <<>>]

\* no coroutine is suspended
NoTask == [kind |-> "none"]

\* the coroutines that call AsyncRateLimiter.acquire
Callers == {"k1", "k2"}

\* no call of retry_async is under way
NoRetry == [pc |-> "idle"]

\* The manager's state as one value, threaded through the handlers.
\* exc is the exception in flight ("none" when there is none).
Mgr ==
  [active_connections |-> active_connections,
   project_rooms |-> project_rooms,
   connection_metadata |-> connection_metadata,
   offline_messages |-> offline_messages,
   out |-> NoOut, exc |-> "none",
   broken |-> broken,
   stored |-> <<>>,
   now |-> now]

Raise(S, e) == [S EXCEPT !.exc = e]
Deliver(S, ws, message) == [S EXCEPT !.out[ws] = Append(@, message)]

\* the record of a call store_offline_message(user_id, message)
Stored(S, user_id, message) ==
  [S EXCEPT !.stored = Append(@, [user_id |-> user_id, message |-> Stamp(message)])]

(* ---------------------------------------------------------------------- *)
(* ConnectionManager                                                       *)
(* ---------------------------------------------------------------------- *)

\* store_offline_message without lines 183-184: the list is never cut
store_offline_message_unbounded(S, user_id, message) ==
  LET old == IF user_id \in DOMAIN S.offline_messages
             THEN S.offline_messages[user_id] ELSE <<>>
  IN [Stored(S, user_id, message) EXCEPT
        !.offline_messages = DictSet(@, user_id, Append(old, Stamp(message)))]

\* store_offline_message: append, then keep the last 50
store_offline_message(S, user_id, message) ==
  LET old == IF user_id \in DOMAIN S.offline_messages
             THEN S.offline_messages[user_id] ELSE <<>>
      lst == Append(old, Stamp(message))
  IN [Stored(S, user_id, message) EXCEPT !.offline_messages =
        DictSet(@, user_id,
                IF Len(lst) > OfflineLimit THEN LastN(lst, OfflineLimit) ELSE lst)]

\* the try/except body of send_personal_message for one websocket
SendOne(S, ws, message) ==
  IF ws \in S.broken
  THEN S
  ELSE LET S1 == Deliver(S, ws, message)
       IN IF ws \in DOMAIN S1.connection_metadata
          THEN [S1 EXCEPT !.connection_metadata[ws].last_activity = S.now]
          ELSE S1

\* disconnect, lines 61-64, with the emptied entry left in the dict
RemoveConnectionKeepsEntry(active, user_id, websocket) ==
  IF user_id \in DOMAIN active
  THEN DictSet(active, user_id, active[user_id] \ {websocket})
  ELSE active

\* disconnect, lines 61-64: discard the websocket, delete the emptied entry
RemoveConnection(active, user_id, websocket) ==
  IF user_id \in DOMAIN active
  THEN LET rest == active[user_id] \ {websocket}
       IN IF rest = {} THEN DictDel(active, user_id)
          ELSE DictSet(active, user_id, rest)
  ELSE active

\* leave_project_room, lines 92-96, with the emptied room left in the dict
RemoveMemberKeepsRoom(rooms, project_id, user_id) ==
  DictSet(rooms, project_id, rooms[project_id] \ {user_id})

\* leave_project_room, lines 92-96: discard the user, delete the emptied room
RemoveMember(rooms, project_id, user_id) ==
  LET rest == rooms[project_id] \ {user_id}
  IN IF rest = {} THEN DictDel(rooms, project_id)
     ELSE DictSet(rooms, project_id, rest)

RECURSIVE SendAll(_, _, _)
SendAll(S, wss, message) ==
  IF wss = <<>> THEN S
  ELSE SendAll(SendOne(S, Head(wss), message), Tail(wss), message)

RECURSIVE disconnect(_, _), leave_project_room(_, _, _),
          broadcast_to_project(_, _, _, _), BroadcastLoop(_, _, _, _, _, _),
          send_personal_message(_, _, _), DisconnectAll(_, _)

\* disconnect: unregister, leave the room recorded at connect, drop metadata
disconnect(S, websocket) ==
  IF websocket \notin DOMAIN S.connection_metadata THEN S
  ELSE
    LET metadata == S.connection_metadata[websocket]
        user_id == metadata.user_id
        project_id == metadata.project_id
        S1 == [S EXCEPT !.active_connections =
                 RemoveConnection(@, user_id, websocket)]
        S2 == IF project_id # None
              THEN leave_project_room(S1, user_id, project_id)
              ELSE S1
    IN IF S2.exc # "none" THEN S2
       ELSE [S2 EXCEPT !.connection_metadata = DictDel(@, websocket)]

\* the "for websocket in disconnected" loop of send_personal_message
DisconnectAll(S, wss) ==
  IF wss = <<>> \/ S.exc # "none" THEN S
  ELSE DisconnectAll(disconnect(S, Head(wss)), Tail(wss))

leave_project_room(S, user_id, project_id) ==
  IF project_id \notin DOMAIN S.project_rooms THEN S
  ELSE
    LET S1 == [S EXCEPT !.project_rooms = RemoveMember(@, project_id, user_id)]
    IN IF S.project_rooms[project_id] \ {user_id} = {}
       THEN S1
       ELSE broadcast_to_project(S1, project_id, UserLeftMsg(user_id), user_id)

send_personal_message(S, user_id, message) ==
  IF user_id \in DOMAIN S.active_connections
  THEN LET wss == InOrder(S.active_connections[user_id], cord)
           disconnected == SelectSeq(wss, LAMBDA ws : ws \in S.broken)
       IN DisconnectAll(SendAll(S, wss, message), disconnected)
  ELSE store_offline_message(S, user_id, message)

\* One turn of "for user_id in self.project_rooms[project_id]".  The iterator
\* is over the live set: Python raises RuntimeError at the next turn when the
\* set's size differs from its size when the loop started (used).
BroadcastLoop(S, project_id, message, exclude_user, visited, used) ==
  IF S.exc # "none" THEN S
  ELSE IF project_id \notin DOMAIN S.project_rooms
          \/ Cardinality(S.project_rooms[project_id]) # used
  THEN Raise(S, "RuntimeError")
  ELSE
    LET todo == InOrder(S.project_rooms[project_id] \ visited, uord)
    IN IF todo = <<>> THEN S
       ELSE
         LET user_id == Head(todo)
         IN IF exclude_user # None /\ user_id = exclude_user
            THEN BroadcastLoop(S, project_id, message, exclude_user,
                               visited \cup {user_id}, used)
            ELSE BroadcastLoop(
                   send_personal_message(S, user_id, message),
                   project_id,
                   IF user_id \in DOMAIN S.active_connections
                   THEN message ELSE Stamp(message),
                   exclude_user, visited \cup {user_id}, used)

broadcast_to_project(S, project_id, message, exclude_user) ==
  IF project_id \notin DOMAIN S.project_rooms THEN S
  ELSE BroadcastLoop(S, project_id, message, exclude_user, {},
                     Cardinality(S.project_rooms[project_id]))

join_project_room(S, user_id, project_id) ==
  LET members == IF project_id \in DOMAIN S.project_rooms
                 THEN S.project_rooms[project_id] ELSE {}
  IN broadcast_to_project(
       [S EXCEPT !.project_rooms = DictSet(@, project_id, members \cup {user_id})],
       project_id, UserJoinedMsg(user_id), user_id)

broadcast_wireframe_update(S, project_id, wireframe_data, updated_by) ==
  broadcast_to_project(S, project_id,
                       WireframeMsg(project_id, wireframe_data, updated_by),
                       updated_by)

broadcast_cursor_position(S, project_id, user_id, cursor_data) ==
  broadcast_to_project(S, project_id,
                       CursorMsg(project_id, user_id, cursor_data), user_id)

broadcast_ai_response(S, user_id, ai_response) ==
  send_personal_message(S, user_id, AiResponseMsg(ai_response))

\* One turn of "for message in messages" of send_offline_messages.  messages
\* is the list object the loop iterates; aliased says whether
\* offline_messages[user_id] is still that same object, so that an append
\* made by store_offline_message during the loop lengthens the iterated list
\* (until the [-50:] slice rebinds the dict entry to a new list).
RECURSIVE FlushLoop(_, _, _, _, _)
FlushLoop(S, user_id, messages, i, aliased) ==
  IF S.exc # "none" THEN S
  ELSE IF i > Len(messages)
  THEN IF user_id \in DOMAIN S.offline_messages
       THEN [S EXCEPT !.offline_messages = DictDel(@, user_id)]
       ELSE Raise(S, "KeyError")
  ELSE
    LET wrapped == OfflineWrap(messages[i])
        stored == user_id \notin DOMAIN S.active_connections
        grown == Append(messages, Stamp(wrapped))
    IN FlushLoop(send_personal_message(S, user_id, wrapped), user_id,
                 IF stored /\ aliased THEN grown ELSE messages,
                 i + 1,
                 aliased /\ (stored => Len(grown) <= OfflineLimit))

\* send_offline_messages without line 198: the queue is sent and kept
send_offline_messages_keeps_queue(S, user_id) ==
  IF user_id \in DOMAIN S.offline_messages
  THEN LET S1 == FlushLoop(S, user_id, S.offline_messages[user_id], 1, TRUE)
       IN [S1 EXCEPT !.offline_messages =
             DictSet(@, user_id, S.offline_messages[user_id])]
  ELSE S

send_offline_messages(S, user_id) ==
  IF user_id \in DOMAIN S.offline_messages
  THEN FlushLoop(S, user_id, S.offline_messages[user_id], 1, TRUE)
  ELSE S

\* connect, lines 29-46: register the websocket and join the room
ConnectRegister(S, websocket, user_id, project_id) ==
  LET conns == IF user_id \in DOMAIN S.active_connections
               THEN S.active_connections[user_id] ELSE {}
      S1 == [S EXCEPT
               !.active_connections = DictSet(@, user_id, conns \cup {websocket}),
               !.connection_metadata =
                  DictSet(@, websocket,
                          [user_id |-> user_id, project_id |-> project_id,
                           connected_at |-> S.now, last_activity |-> S.now])]
  IN IF project_id # None
     THEN join_project_room(S1, user_id, project_id) ELSE S1

connect(S, websocket, user_id, project_id) ==
  LET S2 == ConnectRegister(S, websocket, user_id, project_id)
  IN IF S2.exc # "none" THEN S2 ELSE send_offline_messages(S2, user_id)

\* cleanup_stale_connections, lines 229-235: the websockets whose last
\* activity is more than 300 seconds old
StaleConnections(S) ==
  {ws \in DOMAIN S.connection_metadata :
     S.now - S.connection_metadata[ws].last_activity > StaleSeconds}

\* cleanup_stale_connections: the websockets found stale, in the order the
\* metadata dict lists them, are disconnected one after the other
cleanup_stale_connections(S, stale_connections) ==
  DisconnectAll(S, stale_connections)

\* sum(len(connections) for connections in d.values()), over the keys ks
RECURSIVE SumLen(_, _)
SumLen(d, ks) ==
  IF ks = {} THEN 0
  ELSE LET k == CHOOSE x \in ks : TRUE
       IN Cardinality(d[k]) + SumLen(d, ks \ {k})

\* len(d): the number of keys
KeyCount(d) == Cardinality(DOMAIN d)

\* get_connection_stats, line 214
TotalConnections(d) == SumLen(d, DOMAIN d)

\* get_connection_stats, lines 212-225
get_connection_stats(S) ==
  [total_connections |-> TotalConnections(S.active_connections),
   active_users |-> Cardinality(DOMAIN S.active_connections),
   project_rooms |-> Cardinality(DOMAIN S.project_rooms),
   offline_message_queues |-> Cardinality(DOMAIN S.offline_messages),
   users_per_project |->
      [project_id \in DOMAIN S.project_rooms |->
         Cardinality(S.project_rooms[project_id])]]

get_project_users(project_id) ==
  IF project_id \in DOMAIN project_rooms THEN project_rooms[project_id] ELSE {}

get_active_users == DOMAIN active_connections

is_user_online(user_id) == user_id \in DOMAIN active_connections

(* ---------------------------------------------------------------------- *)
(* websocket_endpoint                                                      *)
(* ---------------------------------------------------------------------- *)

\* await websocket.send_text(...) made by the endpoint itself
EndpointSend(S, websocket, message) ==
  IF websocket \in S.broken THEN Raise(S, "SendError")
  ELSE Deliver(S, websocket, message)

\* finally: await websocket_manager.disconnect(websocket)
Finally(S, websocket) == disconnect(Raise(S, "none"), websocket)

\* What follows a handler of the read loop: nothing when it returned; the
\* inner "except json.JSONDecodeError" and "except Exception" each send
\* their error envelope; when that send raises, the outer handlers end the
\* loop and the finally block runs.
\* The result is the manager state and whether the read loop goes on.
AfterHandler(S, websocket) ==
  IF S.exc = "none" THEN [S |-> S, open |-> TRUE]
  ELSE LET S1 == EndpointSend(Raise(S, "none"), websocket,
                              ErrorMsg(IF S.exc = "JSONDecodeError"
                                       THEN "Invalid JSON format"
                                       ELSE "Error processing message"))
       IN IF S1.exc = "none" THEN [S |-> S1, open |-> TRUE]
          ELSE [S |-> Finally(S1, websocket), open |-> FALSE]

\* The endpoint coroutine after its step.  A websocket object whose endpoint
\* has returned and that the manager no longer references is garbage; its
\* name may then stand for a new websocket.
EndpointAfter(S, websocket, open) ==
  [endpoint EXCEPT ![websocket] =
     IF open THEN @
     ELSE [st |-> IF websocket \in DOMAIN S.connection_metadata
                  THEN "closed" ELSE "idle",
           project_id |-> None, joined |-> None, heard |-> 0]]

Commit(S) ==
  /\ active_connections' = S.active_connections
  /\ project_rooms' = S.project_rooms
  /\ connection_metadata' = S.connection_metadata
  /\ offline_messages' = S.offline_messages
  /\ out' = S.out

\* The messages store_offline_message was given for each user since the user
\* last came online: those of the step are added; a connect of the user that
\* returned (online) starts the record anew.
Enqueued(S, online) ==
  enqueued' =
    [u \in Users |->
       IF u \in online THEN <<>>
       ELSE LET mine == SelectSeq(S.stored, LAMBDA r : r.user_id = u)
            IN enqueued[u] \o [i \in 1..Len(mine) |-> mine[i].message]]

\* The record of a step: the operation, its arguments, the exception that
\* left the manager call, and the registries as they were before the step.
Op(op, ws, user_id, project_id, data, exc) ==
  [op |-> op, ws |-> ws, user_id |-> user_id, project_id |-> project_id,
   data |-> data, exc |-> exc,
   before |-> [active_connections |-> active_connections,
               project_rooms |-> project_rooms,
               connection_metadata |-> connection_metadata,
               offline_messages |-> offline_messages,
               endpoint |-> endpoint,
               broken |-> broken,
               now |-> now]]

Init ==
  /\ active_connections = EmptyDict
  /\ project_rooms = EmptyDict
  /\ connection_metadata = EmptyDict
  /\ offline_messages = EmptyDict
  /\ endpoint = [c \in Conns |-> [st |-> "idle", project_id |-> None,
                                   joined |-> None, heard |-> 0]]
  /\ broken = {}
  /\ uord \in UserOrders
  /\ cord = <<"c1", "c2", "c3", "c4">>
  /\ steps = 0
  /\ out = NoOut
  /\ enqueued = [u \in Users |-> <<>>]
  /\ now = 0
  /\ task = NoTask
  /\ received = NoOut
  /\ limiter = [calls |-> <<>>, lock |-> None]
  /\ acquirers = [k \in Callers |-> [pc |-> "idle", wake |-> 0]]
  /\ retry = NoRetry
  /\ last = Op("init", None, None, None, None, "none")

\* websocket_endpoint up to the read loop: connect, then the welcome message.
\* dead: the client's transport dies right after the handshake.
Connect(ws, project_id, dead) ==
  /\ endpoint[ws].st = "idle"
  /\
       LET user_id == ConnUser[ws]
           S0 == [Mgr EXCEPT
                    !.broken = IF dead THEN @ \cup {ws} ELSE @ \ {ws}]
           S1 == connect(S0, ws, user_id, project_id)
           S2 == IF S1.exc = "none"
                 THEN EndpointSend(S1, ws, WelcomeMsg(user_id, project_id))
                 ELSE S1
           open == S2.exc = "none"
           S3 == IF open THEN S2 ELSE Finally(S2, ws)
       IN /\ Commit(S3)
          /\ Enqueued(S3, IF S1.exc = "none" THEN {user_id} ELSE {})
          /\ broken' = IF open THEN S0.broken ELSE S0.broken \ {ws}
          /\ endpoint' = IF open
                         THEN [endpoint EXCEPT ![ws] =
                                 [st |-> "open", project_id |-> project_id,
                                  joined |-> project_id, heard |-> now]]
                         ELSE EndpointAfter(S3, ws, FALSE)
          /\ last' = Op("connect", ws, user_id, project_id, None, S2.exc)
          \* S2.exc: RuntimeError left connect, SendError left the welcome
  /\ UNCHANGED <<uord, cord>>

\* A step of the read loop; S1 is the manager as the message's handler left
\* it.  endpoint[ws].joined
\* remembers the room the connection asked to join last (connect's room id
\* or a later join_project), endpoint[ws].heard the time of the last inbound
\* frame; the program keeps no such fields.
ReadLoop(op, ws, project_id, data, S1) ==
  /\ endpoint[ws].st = "open"
  /\ ws \notin broken
  /\
       LET r == AfterHandler(S1, ws)
           ep0 == EndpointAfter(r.S, ws, r.open)
           ep == IF r.open THEN [ep0 EXCEPT ![ws].heard = now] ELSE ep0
       IN /\ Commit(r.S)
          /\ Enqueued(r.S, {})
          /\ endpoint' = IF op = "join_project" /\ r.open /\ project_id # None
                         THEN [ep EXCEPT ![ws].joined = project_id] ELSE ep
          /\ last' = Op(op, ws, ConnUser[ws], project_id, data, S1.exc)
  /\ UNCHANGED <<broken, uord, cord>>

\* {"type": "cursor_update", "cursor_data": ...}
CursorUpdate(ws, cursor_data) ==
  ReadLoop("cursor_update", ws, endpoint[ws].project_id, cursor_data,
           broadcast_cursor_position(Mgr, endpoint[ws].project_id,
                                     ConnUser[ws], cursor_data))

\* {"type": "wireframe_update", "wireframe_data": ...}
WireframeUpdate(ws, wireframe_data) ==
  ReadLoop("wireframe_update", ws, endpoint[ws].project_id, wireframe_data,
           broadcast_wireframe_update(Mgr, endpoint[ws].project_id,
                                      wireframe_data, ConnUser[ws]))

\* {"type": "join_project", "project_id": ...}
JoinProject(ws, new_project_id) ==
  ReadLoop("join_project", ws, new_project_id, None,
           IF new_project_id # None
           THEN join_project_room(Mgr, ConnUser[ws], new_project_id)
           ELSE Mgr)

\* {"type": "leave_project", "project_id": ...}
LeaveProject(ws, leave_project_id) ==
  ReadLoop("leave_project", ws, leave_project_id, None,
           IF leave_project_id # None
           THEN leave_project_room(Mgr, ConnUser[ws], leave_project_id)
           ELSE Mgr)

\* {"type": "ping"}
Ping(ws, timestamp) ==
  ReadLoop("ping", ws, None, timestamp,
           EndpointSend(Mgr, ws, PongMsg(timestamp)))

\* a text frame that is not JSON: json.loads raises JSONDecodeError
InvalidJson(ws) ==
  ReadLoop("invalid_json", ws, None, None, Raise(Mgr, "JSONDecodeError"))

\* a JSON text that is no object (a list, a number, a string): message.get
\* raises AttributeError
NotAnObject(ws) ==
  ReadLoop("not_an_object", ws, None, None, Raise(Mgr, "AttributeError"))

\* an object whose "type" is absent (message_type is None) or is none of the
\* five the if/elif chain knows: no branch is taken
UnknownType(ws, message_type) ==
  ReadLoop("unknown_type", ws, None, message_type, Mgr)

\* The client closes.  receive_text raises WebSocketDisconnect, an Exception:
\* the inner "except Exception" takes it and sends an error envelope to the
\* closed peer; that send raises, the outer handler takes it, and the finally
\* block runs.
ClientClose(ws) ==
  /\ endpoint[ws].st = "open"
  /\
       LET S1 == Finally(Mgr, ws)
       IN /\ Commit(S1)
          /\ Enqueued(S1, {})
          /\ endpoint' = EndpointAfter(S1, ws, FALSE)
          /\ last' = Op("close", ws, ConnUser[ws], None, None, S1.exc)
  /\ broken' = broken \ {ws}
  /\ UNCHANGED <<uord, cord>>

\* the transport of an open connection starts failing its sends
TransportFail(ws) ==
  /\ endpoint[ws].st = "open"
  /\ ws \notin broken
  /\ broken' = broken \cup {ws}
  /\ out' = NoOut
  /\ last' = Op("transport_fail", ws, ConnUser[ws], None, None, "none")
  /\ UNCHANGED <<active_connections, project_rooms, connection_metadata,
                 offline_messages, endpoint, uord, cord, enqueued>>

\* one sweep of cleanup_stale_connections; stale_connections are the
\* websockets whose last_activity the clock finds older than 300 s
Reaper(stale_connections) ==
  /\ stale_connections # <<>>
  /\ LET S1 == cleanup_stale_connections(Mgr, stale_connections)
     IN /\ Commit(S1)
        /\ Enqueued(S1, {})
        /\ last' = Op("reaper", None, None, None, None, S1.exc)
  /\ UNCHANGED <<endpoint, broken, uord, cord>>

\* POST /wireframes, PUT /wireframes/{id}: broadcast_wireframe_update
HttpWireframeUpdate(project_id, updated_by, wireframe_data) ==
  /\ LET S1 == broadcast_wireframe_update(Mgr, project_id, wireframe_data, updated_by)
     IN /\ Commit(S1)
        /\ Enqueued(S1, {})
        /\ last' = Op("http_wireframe_update", None, updated_by, project_id,
                      wireframe_data, S1.exc)
  /\ UNCHANGED <<endpoint, broken, uord, cord>>

\* POST /conversations/{id}/messages: broadcast_ai_response to the caller
AiResponse(user_id, ai_response) ==
  /\
       LET S1 == broadcast_ai_response(Mgr, user_id, ai_response)
       IN /\ Commit(S1)
          /\ Enqueued(S1, {})
          /\ last' = Op("ai_response", None, user_id, None, ai_response, S1.exc)
  /\ UNCHANGED <<endpoint, broken, uord, cord>>

\* the bound on the mailboxes in Spec
QueuesBounded ==
  \A u \in DOMAIN offline_messages : Len(offline_messages[u]) <= MaxQueue

\* a step of Spec: at most MaxSteps steps, mailboxes of at most MaxQueue.
\* Spec does not advance the clock: what a sweep finds stale is an input of
\* its Reaper.
Bounded(A) ==
  /\ steps < MaxSteps
  /\ steps' = steps + 1
  /\ A
  /\ UNCHANGED utils
  /\ QueuesBounded'
  /\ UNCHANGED <<now, task, received>>

Next ==
  \/ \E ws \in Conns, p \in Rooms \cup {None}, dead \in BOOLEAN :
       Bounded(Connect(ws, p, dead))
  \/ \E ws \in Conns, d \in Payloads : Bounded(CursorUpdate(ws, d))
  \/ \E ws \in Conns, d \in Payloads : Bounded(WireframeUpdate(ws, d))
  \/ \E ws \in Conns, p \in Rooms : Bounded(JoinProject(ws, p))
  \/ \E ws \in Conns, p \in Rooms : Bounded(LeaveProject(ws, p))
  \/ \E ws \in Conns : Bounded(Ping(ws, "t1"))
  \/ \E ws \in Conns : Bounded(ClientClose(ws))
  \/ \E ws \in Conns : Bounded(TransportFail(ws))
  \/ \E W \in SUBSET DOMAIN connection_metadata :
       \E stale \in Orders(W) : Bounded(Reaper(stale))
  \/ \E p \in Rooms, u \in Users, d \in Payloads :
       Bounded(HttpWireframeUpdate(p, u, d))
  \/ \E u \in Users, d \in Payloads : Bounded(AiResponse(u, d))

Spec == Init /\ [][Next]_vars

\* The offline mailbox of one user, filled to its limit: AI responses with
\* payloads 0, 1, 2, ... are addressed to B while B connects and disconnects.
BoundedMailbox(A) ==
  /\ steps < MaxEnqueues
  /\ steps' = steps + 1
  /\ A
  /\ UNCHANGED utils
  /\ UNCHANGED <<now, task, received>>

NextMailbox ==
  \/ BoundedMailbox(AiResponse("B", steps))
  \/ \E dead \in BOOLEAN : BoundedMailbox(Connect("c3", None, dead))
  \/ BoundedMailbox(ClientClose("c3"))

InitMailbox == Init /\ uord = <<"A", "B", "C">>

SpecMailbox == InitMailbox /\ [][NextMailbox]_vars

\* The read loop under frames of every kind, join_project and leave_project
\* with and without a room id, on connections of A and B.
BoundedProtocol(A) ==
  /\ steps < MaxProtocolSteps
  /\ steps' = steps + 1
  /\ A
  /\ UNCHANGED utils
  /\ UNCHANGED <<now, task, received>>

NextProtocol ==
  \/ \E ws \in {"c1", "c3"}, p \in {"r1", None} :
       BoundedProtocol(Connect(ws, p, FALSE))
  \/ \E ws \in {"c1", "c3"} : BoundedProtocol(InvalidJson(ws))
  \/ \E ws \in {"c1", "c3"} : BoundedProtocol(NotAnObject(ws))
  \/ \E ws \in {"c1", "c3"}, t \in {None, "bogus"} :
       BoundedProtocol(UnknownType(ws, t))
  \/ \E ws \in {"c1", "c3"}, p \in {"r1", None} :
       BoundedProtocol(JoinProject(ws, p))
  \/ \E ws \in {"c1", "c3"}, p \in {"r1", None} :
       BoundedProtocol(LeaveProject(ws, p))
  \/ \E ws \in {"c1", "c3"}, t \in Timestamps : BoundedProtocol(Ping(ws, t))
  \/ \E ws \in {"c1", "c3"} : BoundedProtocol(ClientClose(ws))

SpecProtocol == InitMailbox /\ [][NextProtocol]_vars

\* GET /ws/stats: get_websocket_stats returns get_connection_stats(); the
\* response is kept in the data field of the step's record
GetStats ==
  /\ out' = NoOut
  /\ last' = Op("stats", None, None, None, get_connection_stats(Mgr), "none")
  /\ UNCHANGED <<active_connections, project_rooms, connection_metadata,
                 offline_messages, endpoint, broken, uord, cord, enqueued>>

BoundedStats(A) ==
  /\ steps < MaxStatsSteps
  /\ steps' = steps + 1
  /\ A
  /\ UNCHANGED utils
  /\ UNCHANGED <<now, task, received>>

\* Stats between the events of two users: A (c1 in room r1, c2) and B (c3,
\* which joins r1 by a frame).
NextStats ==
  \/ BoundedStats(Connect("c1", "r1", FALSE))
  \/ \E ws \in {"c2", "c3"} : BoundedStats(Connect(ws, None, FALSE))
  \/ BoundedStats(JoinProject("c3", "r1"))
  \/ \E ws \in {"c1", "c2", "c3"} : BoundedStats(ClientClose(ws))
  \/ BoundedStats(GetStats)

SpecStats == InitMailbox /\ [][NextStats]_vars

\* One room: A, B and C enter and leave room r1 while transports fail.
BoundedRoom(A) ==
  /\ steps < MaxRoomSteps
  /\ steps' = steps + 1
  /\ A
  /\ UNCHANGED utils
  /\ UNCHANGED <<now, task, received>>

NextRoom ==
  \/ \E ws \in {"c1", "c3", "c4"}, p \in {"r1", None} :
       BoundedRoom(Connect(ws, p, FALSE))
  \/ \E ws \in {"c1", "c3", "c4"} : BoundedRoom(JoinProject(ws, "r1"))
  \/ \E ws \in {"c1", "c3", "c4"} : BoundedRoom(LeaveProject(ws, "r1"))
  \/ \E ws \in {"c3", "c4"} : BoundedRoom(TransportFail(ws))

SpecRoom == Init /\ [][NextRoom]_vars

(* ---------------------------------------------------------------------- *)
(* Coroutines that interleave                                              *)
(*                                                                         *)
(* A coroutine gives up the event loop inside "await websocket.send_text"  *)
(* (websocket_manager.py line 112), after the frame was written.  The      *)
(* specifications below let one coroutine be suspended there while other   *)
(* handlers run, each of those to its end, and then resume it.  task holds *)
(* what the suspended coroutine still has to do: the rest of the           *)
(* send_personal_message loop, the broadcast loops around it with their    *)
(* iterators, and the tail of the handler.                                 *)
(* ---------------------------------------------------------------------- *)

\* del self.connection_metadata[websocket], line 71
DelMetadata(S, websocket) ==
  IF websocket \in DOMAIN S.connection_metadata
  THEN [S EXCEPT !.connection_metadata = DictDel(@, websocket)]
  ELSE Raise(S, "KeyError")

\* The rest of send_personal_message(t.user_id, t.message) once the send to
\* t.cur has returned: lines 115-116, then the next turns of the loop over
\* the set active_connections[user_id] (RuntimeError when the set the
\* iterator holds changed its size or was emptied and dropped), then the
\* prune loop.
ResumeSend(S, t) ==
  LET S1 == IF t.cur \in DOMAIN S.connection_metadata
            THEN [S EXCEPT !.connection_metadata[t.cur].last_activity = S.now]
            ELSE S
  IN IF \/ t.conns_gone
        \/ t.user_id \notin DOMAIN S1.active_connections
     THEN Raise(S1, "RuntimeError")
     ELSE IF Cardinality(S1.active_connections[t.user_id]) # t.used
     THEN Raise(S1, "RuntimeError")
     ELSE LET rest == InOrder(S1.active_connections[t.user_id] \ t.visited, cord)
              disconnected == SelectSeq(rest, LAMBDA ws : ws \in S1.broken)
          IN DisconnectAll(SendAll(S1, rest, t.message), disconnected)

\* The rest of a "for user_id in self.project_rooms[project_id]" loop that
\* was suspended in a turn: gone says that the set the iterator holds was
\* emptied and dropped from the dict in the meantime.
ResumeBroadcast(S, project_id, message, exclude_user, visited, used, gone) ==
  IF S.exc # "none" THEN S
  ELSE IF gone THEN Raise(S, "RuntimeError")
  ELSE BroadcastLoop(S, project_id, message, exclude_user, visited, used)

\* the elements of a sequence up to the first one that is not x
UpToFirstOther(seq, x) ==
  LET idx == CHOOSE i \in 1..Len(seq) :
               seq[i] # x /\ \A j \in 1..(i - 1) : seq[j] = x
  IN {seq[j] : j \in 1..idx}

\* the fields of task that no loop of the suspended coroutine uses
Idle ==
  [kind |-> "none", ws |-> None, project_id |-> None,
   user_id |-> None, message |-> None, cur |-> None, visited |-> {},
   used |-> 0, conns_gone |-> FALSE,
   loop_project |-> None, loop_message |-> None, loop_exclude |-> None,
   loop_visited |-> {}, loop_used |-> 0, loop_gone |-> FALSE,
   outer_project |-> None, outer_message |-> None, outer_exclude |-> None,
   outer_visited |-> {}, outer_used |-> 0, outer_gone |-> FALSE,
   messages |-> <<>>, i |-> 0, list_gone |-> FALSE,
   audience |-> {}]

\* websocket_endpoint up to the first send of the flush: connect registers
\* the websocket, joins the room, and send_offline_messages sends the first
\* queued message, wrapped, to the user's first websocket; there the
\* coroutine is suspended.
ConnectSuspended(ws, project_id) ==
  /\ task.kind = "none"
  /\ endpoint[ws].st = "idle"
  /\ ws \notin broken
  /\
       LET user_id == ConnUser[ws]
           S2 == ConnectRegister(Mgr, ws, user_id, project_id)
       IN /\ S2.exc = "none"
          /\ user_id \in DOMAIN S2.offline_messages
          /\ LET messages == S2.offline_messages[user_id]
                 message == OfflineWrap(messages[1])
                 wss == InOrder(S2.active_connections[user_id], cord)
                 cur == Head(wss)
                 S3 == Deliver(S2, cur, message)
             IN /\ cur \notin broken
                /\ Commit(S3)
                /\ Enqueued(S3, {})
                /\ task' = [Idle EXCEPT
                              !.kind = "connect", !.ws = ws,
                              !.project_id = project_id,
                              !.user_id = user_id, !.message = message,
                              !.cur = cur, !.visited = {cur},
                              !.used = Cardinality(S2.active_connections[user_id]),
                              !.messages = messages, !.i = 1]
          /\ endpoint' = [endpoint EXCEPT ![ws] =
                            [st |-> "connecting", project_id |-> project_id,
                             joined |-> project_id, heard |-> now]]
          /\ last' = Op("connect_suspended", ws, user_id, project_id, None, "none")
  /\ UNCHANGED <<broken, uord, cord>>

\* The suspended connect goes on: the rest of send_personal_message, the rest
\* of the flush over the list it holds, del offline_messages[user_id], then
\* the endpoint's welcome message.
ResumeConnect ==
  /\ task.kind = "connect"
  /\
       LET ws == task.ws
           user_id == task.user_id
           S1 == ResumeSend(Mgr, task)
           messages == IF task.list_gone THEN task.messages
                       ELSE S1.offline_messages[user_id]
           S2 == FlushLoop(S1, user_id, messages, task.i + 1, ~task.list_gone)
           S3 == IF S2.exc = "none"
                 THEN EndpointSend(S2, ws, WelcomeMsg(user_id, task.project_id))
                 ELSE S2
           open == S3.exc = "none"
           S4 == IF open THEN S3 ELSE Finally(S3, ws)
       IN /\ Commit(S4)
          /\ Enqueued(S4, IF S2.exc = "none" THEN {user_id} ELSE {})
          /\ endpoint' = IF open
                         THEN [endpoint EXCEPT ![ws].st = "open"]
                         ELSE EndpointAfter(S4, ws, FALSE)
          /\ last' = Op("resume_connect", ws, user_id, task.project_id, None, S3.exc)
  /\ task' = NoTask
  /\ UNCHANGED <<broken, uord, cord>>

\* POST /wireframes up to a suspension inside a prune.  The broadcast's first
\* recipient has one websocket, whose send fails; send_personal_message
\* prunes it: disconnect removes it from active_connections, leaves the room
\* of its metadata and, in the user_left broadcast to the members that
\* remain, is suspended in the send to the first of them.
HttpWireframeUpdateSuspended(project_id, updated_by, wireframe_data) ==
  /\ task.kind = "none"
  /\ project_id \in DOMAIN project_rooms
  /\ project_rooms[project_id] \ {updated_by} # {}
  /\
       LET order == InOrder(project_rooms[project_id], uord)
           outer_visited == UpToFirstOther(order, updated_by)
           first == CHOOSE u \in outer_visited \ {updated_by} : TRUE
       IN /\ first \in DOMAIN active_connections
          /\ Cardinality(active_connections[first]) = 1
          /\ LET websocket == CHOOSE w \in active_connections[first] : TRUE
                 room == connection_metadata[websocket].project_id
                 active1 == RemoveConnection(active_connections, first, websocket)
             IN /\ websocket \in broken
                /\ websocket \in DOMAIN connection_metadata
                /\ room # None
                /\ room \in DOMAIN project_rooms
                /\ project_rooms[room] \ {first} # {}
                /\ LET rooms1 == RemoveMember(project_rooms, room, first)
                       next == Head(InOrder(rooms1[room], uord))
                   IN /\ next \in DOMAIN active1
                      /\ LET cur == Head(InOrder(active1[next], cord))
                         IN /\ cur \notin broken
                            /\ active_connections' = active1
                            /\ project_rooms' = rooms1
                            /\ out' = [NoOut EXCEPT ![cur] = <<UserLeftMsg(first)>>]
                            /\ task' =
                                 [Idle EXCEPT
                                    !.kind = "wireframe_update",
                                    !.ws = websocket, !.project_id = room,
                                    !.user_id = next,
                                    !.message = UserLeftMsg(first),
                                    !.cur = cur, !.visited = {cur},
                                    !.used = Cardinality(active1[next]),
                                    !.loop_project = room,
                                    !.loop_message = UserLeftMsg(first),
                                    !.loop_exclude = first,
                                    !.loop_visited = {next},
                                    !.loop_used = Cardinality(rooms1[room]),
                                    !.outer_project = project_id,
                                    !.outer_message =
                                       WireframeMsg(project_id, wireframe_data, updated_by),
                                    !.outer_exclude = updated_by,
                                    !.outer_visited = outer_visited,
                                    !.outer_used =
                                       Cardinality(project_rooms[project_id])]
                            /\ last' = Op("wireframe_update_suspended", websocket,
                                          first, room, wireframe_data, "none")
  /\ UNCHANGED <<connection_metadata, offline_messages, endpoint, broken,
                 uord, cord, enqueued>>

\* The suspended prune goes on: the rest of the user_left broadcast, del
\* connection_metadata[websocket] (the end of disconnect), then the rest of
\* the wireframe broadcast that pruned.
ResumeWireframeUpdate ==
  /\ task.kind = "wireframe_update"
  /\
       LET S1 == ResumeSend(Mgr, task)
           S2 == ResumeBroadcast(S1, task.loop_project, task.loop_message,
                                 task.loop_exclude, task.loop_visited,
                                 task.loop_used, task.loop_gone)
           S3 == IF S2.exc = "none" THEN DelMetadata(S2, task.ws) ELSE S2
           S4 == ResumeBroadcast(S3, task.outer_project, task.outer_message,
                                 task.outer_exclude, task.outer_visited,
                                 task.outer_used, task.outer_gone)
       IN /\ Commit(S4)
          /\ Enqueued(S4, {})
          /\ last' = Op("resume_disconnect", task.ws, ConnUser[task.ws],
                        task.project_id, None, S3.exc)
  /\ task' = NoTask
  /\ UNCHANGED <<endpoint, broken, uord, cord>>

\* What a handler that ran while the coroutine was suspended did to the
\* objects the coroutine holds: a set that was emptied and dropped from its
\* dict is no longer the set the dict has under that key, and the list of a
\* flushed mailbox is no longer the list later messages are appended to.
Touched ==
  IF task.kind = "none" THEN task
  ELSE LET list_gone == \/ task.list_gone
                        \/ /\ task.kind = "connect"
                           /\ ConnUser[task.ws] \notin DOMAIN offline_messages'
       IN [task EXCEPT
             !.conns_gone = @ \/ task.user_id \notin DOMAIN active_connections',
             !.loop_gone = @ \/ /\ task.loop_project # None
                                /\ task.loop_project \notin DOMAIN project_rooms',
             !.outer_gone = @ \/ /\ task.outer_project # None
                                 /\ task.outer_project \notin DOMAIN project_rooms',
             !.audience = {c \in @ : c \in DOMAIN connection_metadata'},
             !.list_gone = list_gone,
             !.messages = IF task.kind = "connect" /\ ~list_gone
                          THEN offline_messages'[ConnUser[task.ws]] ELSE @]

\* everything sent so far
Log == [c \in Conns |-> received[c] \o out'[c]]

\* a handler that runs to its end, possibly while a coroutine is suspended
Interleaved(A) ==
  /\ steps < MaxAsyncSteps
  /\ steps' = steps + 1
  /\ A
  /\ UNCHANGED utils
  /\ task' = Touched
  /\ received' = Log
  /\ UNCHANGED now

\* a coroutine is suspended or resumed
Switch(A) ==
  /\ steps < MaxAsyncSteps
  /\ steps' = steps + 1
  /\ A
  /\ UNCHANGED utils
  /\ received' = Log
  /\ UNCHANGED now

\* POST /wireframes up to the first send of the broadcast: the first
\* recipient of broadcast_to_project is online, the frame is written to the
\* first of its websockets, and there the coroutine is suspended.  audience
\* are the websockets of the room's members at that moment, the sender's
\* excepted.
HttpWireframeUpdateSending(project_id, updated_by, wireframe_data) ==
  /\ task.kind = "none"
  /\ project_id \in DOMAIN project_rooms
  /\ project_rooms[project_id] \ {updated_by} # {}
  /\
       LET order == InOrder(project_rooms[project_id], uord)
           loop_visited == UpToFirstOther(order, updated_by)
           first == CHOOSE u \in loop_visited \ {updated_by} : TRUE
           message == WireframeMsg(project_id, wireframe_data, updated_by)
       IN /\ first \in DOMAIN active_connections
          /\ LET cur == Head(InOrder(active_connections[first], cord))
             IN /\ cur \notin broken
                /\ out' = [NoOut EXCEPT ![cur] = <<message>>]
                /\ task' =
                     [Idle EXCEPT
                        !.kind = "broadcast", !.project_id = project_id,
                        !.user_id = first, !.message = message,
                        !.cur = cur, !.visited = {cur},
                        !.used = Cardinality(active_connections[first]),
                        !.loop_project = project_id,
                        !.loop_message = message,
                        !.loop_exclude = updated_by,
                        !.loop_visited = loop_visited,
                        !.loop_used = Cardinality(project_rooms[project_id]),
                        !.audience =
                           {c \in Conns :
                              \E u \in project_rooms[project_id] \ {updated_by} :
                                 /\ u \in DOMAIN active_connections
                                 /\ c \in active_connections[u]}]
                /\ last' = Op("wireframe_update_sending", None, updated_by,
                              project_id, wireframe_data, "none")
  /\ UNCHANGED <<active_connections, project_rooms, connection_metadata,
                 offline_messages, endpoint, broken, uord, cord, enqueued>>

\* The suspended broadcast goes on: the rest of send_personal_message for
\* the first recipient, then the next turns of the loop over the room.
ResumeBroadcastToProject ==
  /\ task.kind = "broadcast"
  /\
       LET S1 == ResumeSend(Mgr, task)
           S2 == ResumeBroadcast(S1, task.loop_project, task.loop_message,
                                 task.loop_exclude, task.loop_visited,
                                 task.loop_used, task.loop_gone)
       IN /\ Commit(S2)
          /\ Enqueued(S2, {})
          /\ last' = Op("resume_broadcast", None, task.loop_exclude,
                        task.loop_project, task.loop_message.data, S2.exc)
  /\ task' = NoTask
  /\ UNCHANGED <<endpoint, broken, uord, cord>>

\* A broadcast to room r1 by A (over HTTP) that is suspended while B (c3),
\* C (c4) and A's own websocket c1 enter and leave the room.
NextBroadcast ==
  \/ \E ws \in {"c1", "c3", "c4"} : Interleaved(Connect(ws, "r1", FALSE))
  \/ \E ws \in {"c1", "c3", "c4"} : Interleaved(ClientClose(ws))
  \/ Switch(HttpWireframeUpdateSending("r1", "A", "p1"))
  \/ Switch(ResumeBroadcastToProject)

SpecBroadcast == Init /\ [][NextBroadcast]_vars

\* Overlapping disconnects: A (c1) and B (c3) in room r1, transports that
\* fail, a wireframe broadcast whose prune is suspended, clients that close.
NextOverlap ==
  \/ \E ws \in {"c1", "c3"} : Interleaved(Connect(ws, "r1", FALSE))
  \/ \E ws \in {"c1", "c3"} : Interleaved(TransportFail(ws))
  \/ \E ws \in {"c1", "c3"} : Interleaved(ClientClose(ws))
  \/ Interleaved(HttpWireframeUpdate("r1", "C", "p1"))
  \/ Switch(HttpWireframeUpdateSuspended("r1", "C", "p1"))
  \/ Switch(ResumeWireframeUpdate)

SpecOverlap == Init /\ [][NextOverlap]_vars

\* Flush and traffic that interleave: A (c1, c2) joins room r1, goes offline
\* and comes back while B (c3) sends numbered cursor updates to the room.
NextFlush ==
  \/ \E ws \in {"c1", "c2"} : Interleaved(Connect(ws, None, FALSE))
  \/ Interleaved(Connect("c3", "r1", FALSE))
  \/ Interleaved(JoinProject("c1", "r1"))
  \/ \E ws \in {"c1", "c2"} : Interleaved(ClientClose(ws))
  \/ Interleaved(CursorUpdate("c3", steps))
  \/ \E ws \in {"c1", "c2"} : Switch(ConnectSuspended(ws, None))
  \/ Switch(ResumeConnect)

SpecFlush == InitMailbox /\ [][NextFlush]_vars

(* ---------------------------------------------------------------------- *)
(* The flush, turn by turn                                                 *)
(* ---------------------------------------------------------------------- *)

\* the list never stops being the mailbox's list
KeepsListAlways(lst) == TRUE

\* store_offline_message, lines 183-184: after an append the dict entry is
\* still the list that was appended to unless the list got longer than 50;
\* then the entry is rebound to a new list, the [-50:] slice
KeepsList(lst) == Len(lst) <= OfflineLimit

\* websocket_endpoint up to the flush: connect registers the websocket and
\* send_offline_messages takes the user's list, messages (line 189).
\* dead: the client's transport dies right after the handshake.
FlushBegin(ws, dead) ==
  /\ task.kind = "none"
  /\ endpoint[ws].st = "idle"
  /\
       LET user_id == ConnUser[ws]
           S0 == [Mgr EXCEPT
                    !.broken = IF dead THEN @ \cup {ws} ELSE @ \ {ws}]
           S2 == ConnectRegister(S0, ws, user_id, None)
       IN /\ S2.exc = "none"
          /\ user_id \in DOMAIN S2.offline_messages
          /\ Commit(S2)
          /\ Enqueued(S2, {})
          /\ broken' = S0.broken
          /\ task' = [Idle EXCEPT
                        !.kind = "flush", !.ws = ws, !.user_id = user_id,
                        !.messages = S2.offline_messages[user_id], !.i = 1]
          /\ endpoint' = [endpoint EXCEPT ![ws] =
                            [st |-> "connecting", project_id |-> None,
                             joined |-> None, heard |-> now]]
          /\ last' = Op("flush_begin", ws, user_id, None, None, "none")
  /\ UNCHANGED <<uord, cord>>

\* One turn of "for message in messages" (lines 191-195): the message is
\* wrapped and given to send_personal_message, which sends it, or prunes the
\* failing websocket, or, the user being offline by then, stores the wrapped
\* message, that is appends it to the mailbox's list.  While that list is
\* the list of the loop (task.list_gone is false) the loop's list grows.
FlushTurn ==
  /\ task.kind = "flush"
  /\ task.i <= Len(task.messages)
  /\
       LET user_id == task.user_id
           wrapped == OfflineWrap(task.messages[task.i])
           stored == user_id \notin DOMAIN active_connections
           grown == Append(task.messages, Stamp(wrapped))
           S1 == send_personal_message(Mgr, user_id, wrapped)
           S2 == IF S1.exc = "none" THEN S1 ELSE Finally(S1, task.ws)
       IN /\ Commit(S2)
          /\ Enqueued(S2, {})
          /\ task' = IF S1.exc = "none"
                     THEN [task EXCEPT
                             !.messages = IF stored /\ ~task.list_gone
                                          THEN grown ELSE @,
                             !.i = @ + 1,
                             !.list_gone = @ \/ (stored /\ ~KeepsList(grown))]
                     ELSE NoTask
          /\ endpoint' = IF S1.exc = "none" THEN endpoint
                         ELSE EndpointAfter(S2, task.ws, FALSE)
          /\ last' = Op("flush_turn", task.ws, user_id, None, None, S1.exc)
  /\ UNCHANGED <<broken, uord, cord>>

\* The loop is over: del self.offline_messages[user_id] (line 198), connect
\* returns and the endpoint sends its welcome message.
FlushEnd ==
  /\ task.kind = "flush"
  /\ task.i > Len(task.messages)
  /\
       LET ws == task.ws
           user_id == task.user_id
           S2 == FlushLoop(Mgr, user_id, task.messages, task.i, ~task.list_gone)
           S3 == IF S2.exc = "none"
                 THEN EndpointSend(S2, ws, WelcomeMsg(user_id, None))
                 ELSE S2
           open == S3.exc = "none"
           S4 == IF open THEN S3 ELSE Finally(S3, ws)
       IN /\ Commit(S4)
          /\ Enqueued(S4, IF S2.exc = "none" THEN {user_id} ELSE {})
          /\ broken' = IF open THEN broken ELSE broken \ {ws}
          /\ endpoint' = IF open
                         THEN [endpoint EXCEPT ![ws].st = "open"]
                         ELSE EndpointAfter(S4, ws, FALSE)
          /\ last' = Op("flush_end", ws, user_id, None, None, S3.exc)
  /\ task' = NoTask
  /\ UNCHANGED <<uord, cord>>

\* a handler that runs while no flush is under way; the messages stored for
\* a user that stays offline are counted up to MaxEnqueues
BetweenFlushes(A) ==
  /\ task.kind = "none"
  /\ \A u \in Users : Len(enqueued[u]) < MaxEnqueues
  /\ A
  /\ UNCHANGED utils
  /\ UNCHANGED <<steps, now, task, received>>

\* a step of the flush
Flushing(A) ==
  /\ A
  /\ UNCHANGED utils
  /\ UNCHANGED <<steps, now, received>>

\* The mailbox of B fills, B (c3) connects, over a transport that works or
\* one that is dead, and the flush runs turn by turn.  The event loop runs a
\* flush that has begun until it ends.
NextDrain ==
  \/ BetweenFlushes(AiResponse("B", "p1"))
  \/ BetweenFlushes(ClientClose("c3"))
  \/ \E dead \in BOOLEAN : Flushing(FlushBegin("c3", dead))
  \/ Flushing(FlushTurn)
  \/ Flushing(FlushEnd)

SpecDrain ==
  /\ InitMailbox
  /\ [][NextDrain]_vars
  /\ WF_vars(Flushing(FlushTurn))
  /\ WF_vars(Flushing(FlushEnd))

\* The clock: TickSeconds pass without any event
Tick ==
  /\ now < MaxNow
  /\ now' = now + TickSeconds
  /\ out' = NoOut
  /\ last' = Op("tick", None, None, None, None, "none")
  /\ UNCHANGED <<active_connections, project_rooms, connection_metadata,
                 offline_messages, endpoint, broken, uord, cord, enqueued>>

\* one sweep of cleanup_stale_connections, the stale list found by the clock
Sweep == \E stale \in Orders(StaleConnections(Mgr)) : Reaper(stale)

\* the passing of time in SpecReaper
BoundedClock(A) ==
  /\ steps < MaxReaperSteps
  /\ steps' = steps + 1
  /\ A
  /\ UNCHANGED utils
  /\ UNCHANGED <<task, received>>

\* an event of SpecReaper, which happens at the time now
BoundedReaper(A) ==
  /\ steps < MaxReaperSteps
  /\ steps' = steps + 1
  /\ A
  /\ UNCHANGED utils
  /\ UNCHANGED <<now, task, received>>

\* Connections of A (two devices) and B that open, join room r1, ping and
\* send cursor updates while time passes and the sweep runs.
NextReaper ==
  \/ \E ws \in {"c1", "c2", "c3"}, p \in {"r1", None} :
       BoundedReaper(Connect(ws, p, FALSE))
  \/ \E ws \in {"c1", "c3"} : BoundedReaper(JoinProject(ws, "r1"))
  \/ \E ws \in {"c1", "c3"} : BoundedReaper(Ping(ws, "t1"))
  \/ BoundedReaper(CursorUpdate("c1", "p1"))
  \/ BoundedClock(Tick)
  \/ BoundedReaper(Sweep)

SpecReaper == InitMailbox /\ [][NextReaper]_vars

BoundedProcess(A) ==
  /\ steps < MaxProcessSteps
  /\ steps' = steps + 1
  /\ A
  /\ UNCHANGED utils
  /\ UNCHANGED <<now, task, received>>

BoundedProcessClock(A) ==
  /\ steps < MaxProcessSteps
  /\ steps' = steps + 1
  /\ A
  /\ UNCHANGED utils
  /\ UNCHANGED <<task, received>>

\* The process as main.py runs it.  lifespan (lines 24-81) tests the database
\* and Redis connections and creates no background task, and no other code
\* calls cleanup_stale_connections: the steps of the process are the
\* connection events, which clients are free to make or not, and the passing
\* of time, which does not stop.
NextProcess ==
  \/ \E ws \in {"c1", "c3"} : BoundedProcess(Connect(ws, "r1", FALSE))
  \/ \E ws \in {"c1", "c3"} : BoundedProcess(Ping(ws, "t1"))
  \/ BoundedProcess(CursorUpdate("c1", "p1"))
  \/ \E ws \in {"c1", "c3"} : BoundedProcess(ClientClose(ws))
  \/ BoundedProcessClock(Tick)

SpecProcess ==
  InitMailbox /\ [][NextProcess]_vars /\ WF_vars(BoundedProcessClock(Tick))

(* ---------------------------------------------------------------------- *)
(* AsyncRateLimiter (app/utils/async_helpers.py)                           *)
(* ---------------------------------------------------------------------- *)

\* the state of the websocket code, which the utilities do not use
sockets == <<active_connections, project_rooms, connection_metadata,
             offline_messages, endpoint, broken, uord, cord, steps, out, last,
             enqueued, task, received>>

\* min(self.calls)
MinOf(calls) ==
  CHOOSE t \in {calls[i] : i \in 1..Len(calls)} :
     \A i \in 1..Len(calls) : t <= calls[i]

\* "async with self.lock" and the body of acquire up to its first await
\* (lines 131-145).  An asyncio.Lock is not reentrant: while it is held,
\* whoever reaches the "async with" waits, the holder's own inner call too.
\* With the lock the coroutine drops the calls older than the window; when
\* max_calls calls remain it goes to sleep until the oldest leaves the
\* window, still holding the lock; otherwise it records its call, returns
\* True and leaves the lock.
AtLock(k) ==
  IF limiter.lock # None
  THEN /\ acquirers' = [acquirers EXCEPT ![k].pc = "lock"]
       /\ UNCHANGED limiter
  ELSE LET calls == SelectSeq(limiter.calls, LAMBDA t : now - t < TimeWindow)
       IN IF Len(calls) >= MaxCalls
          THEN /\ limiter' = [calls |-> calls, lock |-> k]
               /\ acquirers' =
                    [acquirers EXCEPT
                       ![k] = [pc |-> "sleep",
                               wake |-> now + (TimeWindow - (now - MinOf(calls)))]]
          ELSE /\ limiter' = [calls |-> Append(calls, now), lock |-> None]
               /\ acquirers' = [acquirers EXCEPT ![k].pc = "returned"]

\* A coroutine calls acquire(), or a coroutine that waits for the lock finds
\* it free.  New calls are made while the clock of the model can still run a
\* whole window further.
LimiterAcquire(k) ==
  /\ \/ /\ acquirers[k].pc \in {"idle", "returned"}
        /\ now + TimeWindow <= MaxNow
     \/ /\ acquirers[k].pc = "lock"
        /\ limiter.lock = None
  /\ AtLock(k)
  /\ UNCHANGED <<retry, now>>

\* asyncio.sleep(wait_time) is over; "return await self.acquire()" (line
\* 142) calls acquire again from inside the "async with" block.
LimiterWake(k) ==
  /\ acquirers[k].pc = "sleep"
  /\ now >= acquirers[k].wake
  /\ AtLock(k)
  /\ UNCHANGED <<retry, now>>

\* a step of a caller of the limiter
Limiting(A) ==
  /\ A
  /\ UNCHANGED sockets

\* time passes for the limiter
LimiterClock(A) ==
  /\ A
  /\ UNCHANGED <<steps, task, received>>
  /\ UNCHANGED utils

\* Two coroutines call acquire() again and again while time passes.  The
\* event loop runs every coroutine that can run, and time does not stop.
NextLimiter ==
  \/ \E k \in Callers : Limiting(LimiterAcquire(k))
  \/ \E k \in Callers : Limiting(LimiterWake(k))
  \/ LimiterClock(Tick)

SpecLimiter ==
  /\ InitMailbox
  /\ [][NextLimiter]_vars
  /\ \A k \in Callers : WF_vars(Limiting(LimiterAcquire(k)))
  /\ \A k \in Callers : WF_vars(Limiting(LimiterWake(k)))
  /\ WF_vars(LimiterClock(Tick))

(* ---------------------------------------------------------------------- *)
(* retry_async (app/utils/retry.py)                                        *)
(* ---------------------------------------------------------------------- *)

\* What a call of func does: it returns a value, raises an exception of a
\* type listed in config.exceptions, or raises one of another type.
Outcomes == {"ok", "listed", "other"}

\* a handler that catches whatever was raised
CaughtAny(outcome) == outcome # "ok"

\* except config.exceptions as e (line 48)
Caught(outcome) == outcome = "listed"

\* retry_async(func, config) is called; outcomes[i] is what the i-th call of
\* func will do.  Line 42: last_exception = None.
RetryCall(max_attempts, outcomes) ==
  /\ retry.pc \in {"idle", "returned", "raised"}
  /\ retry' = [pc |-> "loop", max_attempts |-> max_attempts,
               outcomes |-> outcomes, attempt |-> 0, calls |-> 0,
               last_exception |-> 0,
               result |-> [kind |-> "none", call |-> 0]]
  /\ UNCHANGED <<limiter, acquirers, now>>

\* One turn of "for attempt in range(config.max_attempts)" (lines 44-56):
\* func is called; its value is returned; an exception that is not listed
\* leaves retry_async; a listed one is kept as last_exception, and after the
\* last attempt the loop is left and last_exception raised (lines 51-53, 58),
\* otherwise the coroutine sleeps.  Values and exceptions are named by the
\* call of func they came from.
RetryAttempt ==
  /\ retry.pc = "loop"
  /\ LET call == retry.calls + 1
         outcome == retry.outcomes[call]
     IN retry' =
          IF retry.attempt >= retry.max_attempts
          THEN [retry EXCEPT !.pc = "raised",
                             !.result = [kind |-> "exception",
                                         call |-> retry.last_exception]]
          ELSE IF outcome = "ok"
          THEN [retry EXCEPT !.pc = "returned", !.calls = call,
                             !.result = [kind |-> "value", call |-> call]]
          ELSE IF ~Caught(outcome)
          THEN [retry EXCEPT !.pc = "raised", !.calls = call,
                             !.result = [kind |-> "exception", call |-> call]]
          ELSE IF retry.attempt = retry.max_attempts - 1
          THEN [retry EXCEPT !.pc = "raised", !.calls = call,
                             !.last_exception = call,
                             !.result = [kind |-> "exception", call |-> call]]
          ELSE [retry EXCEPT !.pc = "sleep", !.calls = call,
                             !.last_exception = call]
  /\ UNCHANGED <<limiter, acquirers, now>>

\* await asyncio.sleep(delay) is over (line 56): the next attempt
RetrySleepOver ==
  /\ retry.pc = "sleep"
  /\ retry' = [retry EXCEPT !.pc = "loop", !.attempt = @ + 1]
  /\ UNCHANGED <<limiter, acquirers, now>>

\* a step of retry_async
Retrying(A) ==
  /\ A
  /\ UNCHANGED sockets

\* retry_async is called with max_attempts from 1 to MaxAttempts and with
\* every behaviour of func over that many calls.
NextRetry ==
  \/ \E max_attempts \in 1..MaxAttempts,
        outcomes \in [1..MaxAttempts -> Outcomes] :
       Retrying(RetryCall(max_attempts, outcomes))
  \/ Retrying(RetryAttempt)
  \/ Retrying(RetrySleepOver)

SpecRetry == InitMailbox /\ [][NextRetry]_vars

(* ---------------------------------------------------------------------- *)
(* Claims                                                                  *)
(* ---------------------------------------------------------------------- *)

\* connections_for(user_id): the user's live connections, possibly none
connections_for(user_id) ==
  IF user_id \in DOMAIN active_connections
  THEN active_connections[user_id] ELSE {}

\* the steps that run disconnect: close, reaper, or a prune after a failed send
Disconnected(ws) ==
  /\ ws \in DOMAIN last.before.connection_metadata
  /\ ws \notin DOMAIN connection_metadata

\* C1: presence invariant.  In every reachable state every user id present in
\* active_connections has a non-empty connection set, and is_user_online(u)
\* holds exactly when u has at least one live connection.
PresenceInvariant ==
  /\ \A u \in DOMAIN active_connections : active_connections[u] # {}
  /\ \A u \in Users : is_user_online(u) <=> connections_for(u) # {}

\* C1 witness: a user's last connection has been disconnected while another
\* user stays online
PresenceWitness ==
  /\ \E ws \in Conns : Disconnected(ws)
  /\ last.user_id \in DOMAIN last.before.active_connections
  /\ ~is_user_online(last.user_id)
  /\ \E u \in Users : is_user_online(u)

\* C2: room invariant.  In every reachable state every room id present in
\* project_rooms has a non-empty member set, so get_project_users never
\* shows a room that is present and empty.
RoomInvariant ==
  \A p \in DOMAIN project_rooms :
    project_rooms[p] # {} /\ get_project_users(p) # {}

\* C2 witness: a room that had members is gone after its last member left,
\* while another room still has members
RoomWitness ==
  /\ \E p \in DOMAIN last.before.project_rooms : p \notin DOMAIN project_rooms
  /\ DOMAIN project_rooms # {}

\* the messages of one type among those the last step sent to websocket c
OutOfType(c, type) == SelectSeq(out[c], LAMBDA m : m.type = type)

\* message m is the cursor / wireframe update the last step broadcast
IsUpdate(m, type) ==
  m.type = type /\ m.user_id = last.user_id /\ m.data = last.data

Before == last.before

MembersBefore(R) ==
  IF R \in DOMAIN Before.project_rooms THEN Before.project_rooms[R] ELSE {}

ConnectionsBefore(u) ==
  IF u \in DOMAIN Before.active_connections
  THEN Before.active_connections[u] ELSE {}

RoomsOf(u) == {p \in DOMAIN project_rooms : u \in project_rooms[p]}

\* every member of R is online and none of their websockets fails its sends
AllOnlineNoFailure(R) ==
  \A m \in MembersBefore(R) :
    ConnectionsBefore(m) # {} /\ ConnectionsBefore(m) \cap Before.broken = {}

\* what C3 asks of room R after a cursor_update of one of its members
ExactlyTheOthersReceive(R) ==
  /\ \A m \in MembersBefore(R) \ {last.user_id} :
       \A c \in ConnectionsBefore(m) :
         /\ Len(OutOfType(c, "cursor_update")) = 1
         /\ IsUpdate(OutOfType(c, "cursor_update")[1], "cursor_update")
  /\ \A c \in ConnectionsBefore(last.user_id) : out[c] = <<>>

\* C3: broadcast excludes the sender.  When user A, in room R whose members
\* are all online and no send fails, sends cursor_update, every connection of
\* every other member receives exactly one cursor_update envelope carrying
\* the payload and A's user id, and no connection of A receives anything.
BroadcastExcludesSender ==
  last.op = "cursor_update" =>
    \A R \in DOMAIN Before.project_rooms :
      (last.user_id \in MembersBefore(R) /\ AllOnlineNoFailure(R))
        => ExactlyTheOthersReceive(R)

\* C3, for the room id the connection was opened with: this much holds
BroadcastExcludesSenderOfConnectRoom ==
  last.op = "cursor_update" =>
    \A R \in DOMAIN Before.project_rooms :
      (/\ R = Before.endpoint[last.ws].project_id
       /\ last.user_id \in MembersBefore(R)
       /\ AllOnlineNoFailure(R))
        => ExactlyTheOthersReceive(R)

\* a state in which A, B and C in one room all received what C3 asks
BroadcastExcludesSenderOfConnectRoomWitness ==
  /\ last.op = "cursor_update"
  /\ \E R \in DOMAIN Before.project_rooms :
       /\ R = Before.endpoint[last.ws].project_id
       /\ MembersBefore(R) = Users
       /\ AllOnlineNoFailure(R)
       /\ ExactlyTheOthersReceive(R)

MailboxBefore(u) ==
  IF u \in DOMAIN Before.offline_messages
  THEN Before.offline_messages[u] ELSE <<>>

Mailbox(u) ==
  IF u \in DOMAIN offline_messages THEN offline_messages[u] ELSE <<>>

WrapAll(messages) == [i \in 1..Len(messages) |-> OfflineWrap(messages[i])]

\* a message routed to a user without live connection is appended to the mailbox
EnqueuedWhenOffline ==
  (last.op = "ai_response" /\ ConnectionsBefore(last.user_id) = {}) =>
    Mailbox(last.user_id) =
      LastN(Append(MailboxBefore(last.user_id), Stamp(AiResponseMsg(last.data))),
            OfflineLimit)

\* the connecting websocket received each queued message once, wrapped, and
\* nothing else as offline_message; no other websocket received any
FlushedToConnection ==
  /\ OutOfType(last.ws, "offline_message") = WrapAll(MailboxBefore(last.user_id))
  /\ \A c \in Conns \ {last.ws} : OutOfType(c, "offline_message") = <<>>

\* offline_message envelopes are sent by connect only
OnlyConnectFlushes ==
  last.op # "connect" => \A c \in Conns : OutOfType(c, "offline_message") = <<>>

\* connect returned (it raised no RuntimeError on the way)
ConnectCompleted == last.op = "connect" /\ last.exc # "RuntimeError"

UserBefore(ws) == Before.connection_metadata[ws].user_id

\* the last step disconnected ws, and ws was its user's last live connection
LastConnectionGone(ws) ==
  /\ Disconnected(ws)
  /\ ws \in ConnectionsBefore(UserBefore(ws))
  /\ connections_for(UserBefore(ws)) = {}

\* C5: last-disconnect cascade.  Whenever a user's last live connection is
\* disconnected (close, transport error, prune or reaper) the user is removed
\* from the room they belong to, however they entered it; a room they were
\* the sole member of no longer exists.
LastDisconnectCascade ==
  \A ws \in Conns :
    LastConnectionGone(ws) =>
      \A p \in Rooms :
        /\ UserBefore(ws) \notin get_project_users(p)
        /\ MembersBefore(p) = {UserBefore(ws)} => p \notin DOMAIN project_rooms

\* the last step sent a user_left naming u to some websocket
UserLeftSent(u) ==
  \E c \in Conns :
    \E i \in 1..Len(out[c]) : out[c][i].type = "user_left" /\ out[c][i].user_id = u

\* C6: multi-device disconnect.  Disconnecting one connection of a user who
\* still has another live connection leaves the user's room membership
\* unchanged and emits no user_left.
MultiDeviceDisconnect ==
  \A ws \in Conns :
    (Disconnected(ws) /\ connections_for(UserBefore(ws)) # {}) =>
      /\ \A p \in Rooms :
           UserBefore(ws) \in MembersBefore(p) <=> UserBefore(ws) \in get_project_users(p)
      /\ ~UserLeftSent(UserBefore(ws))

\* C7: single room per user.  In every reachable state each user id is a
\* member of at most one room.
SingleRoomPerUser ==
  \A u \in Users : Cardinality(RoomsOf(u)) <= 1

\* the last step was a room broadcast of a cursor or wireframe update
UpdateType ==
  IF last.op = "http_wireframe_update" THEN "wireframe_update" ELSE last.op

\* websocket c received the update the last step broadcast
ReceivedUpdate(c) ==
  \E i \in 1..Len(out[c]) : IsUpdate(out[c][i], UpdateType)

\* C8: current-room routing.  A join_project envelope updates the room of the
\* sending connection: a later cursor_update or wireframe_update on that
\* connection reaches the other members of the room joined most recently.
CurrentRoomRouting ==
  last.op \in {"cursor_update", "wireframe_update"} =>
    LET R == Before.endpoint[last.ws].joined
    IN (/\ R # None
        /\ last.user_id \in MembersBefore(R)
        /\ AllOnlineNoFailure(R))
         => \A m \in MembersBefore(R) \ {last.user_id} :
              \A c \in ConnectionsBefore(m) : ReceivedUpdate(c)

\* C9: delivery-failure isolation.  In a room broadcast a connection whose
\* send fails is pruned through disconnect, and every other connection of
\* the audience still receives the message.
DeliveryFailureIsolation ==
  last.op \in {"cursor_update", "wireframe_update", "http_wireframe_update"} =>
    \A m \in MembersBefore(last.project_id) \ {last.user_id} :
      \A c \in ConnectionsBefore(m) :
        IF c \in Before.broken
        THEN c \notin DOMAIN connection_metadata /\ c \notin connections_for(m)
        ELSE ReceivedUpdate(c)

\* C10: mailbox bound.  In every reachable state the offline mailbox of every
\* user holds at most 50 messages.
MailboxBound ==
  \A u \in DOMAIN offline_messages : Len(offline_messages[u]) <= 50

\* C10 witness: a 51st message was stored in a full mailbox, which holds 50
MailboxBoundWitness ==
  /\ last.op = "ai_response"
  /\ Len(MailboxBefore(last.user_id)) = 50
  /\ Len(Mailbox(last.user_id)) = 50

Min(a, b) == IF a <= b THEN a ELSE b

\* C11: mailbox eviction order.  After n messages have been enqueued for a
\* user who stays offline, the mailbox holds exactly the last min(n, 50) of
\* them, in the order they were enqueued.
MailboxEvictionOrder ==
  \A u \in Users :
    ~is_user_online(u) =>
      LET n == Len(enqueued[u])
          k == Min(n, 50)
      IN /\ Len(Mailbox(u)) = k
         /\ \A i \in 1..k : Mailbox(u)[i] = enqueued[u][n - k + i]

\* C11 witness: 52 messages were enqueued for a user who stayed offline, the
\* two oldest are gone
MailboxEvictionOrderWitness ==
  /\ ~is_user_online("B")
  /\ Len(enqueued["B"]) = 52
  /\ Len(Mailbox("B")) = 50
  /\ Mailbox("B")[1] = enqueued["B"][3]

\* the connections a sweep run now would find stale, as of before the step
StaleBefore ==
  {ws \in DOMAIN Before.connection_metadata :
     Before.now - Before.connection_metadata[ws].last_activity > 300}

\* the rooms u was a member of before the step are the rooms u is a member of
SameRooms(u) ==
  \A p \in Rooms : u \in MembersBefore(p) <=> u \in get_project_users(p)

\* C17: reaper sweep.  One sweep removes every connection whose last_activity
\* is more than 300 s old through the path of a voluntary disconnect, so that
\* its presence entry and room membership are cleaned up, and leaves every
\* connection within the threshold registered, its room membership untouched.
ReaperSweep ==
  last.op = "reaper" =>
    /\ \A ws \in StaleBefore :
         /\ ws \notin DOMAIN connection_metadata
         /\ ws \notin connections_for(UserBefore(ws))
         /\ connections_for(UserBefore(ws)) = {} => RoomsOf(UserBefore(ws)) = {}
    /\ \A ws \in DOMAIN Before.connection_metadata \ StaleBefore :
         /\ ws \in DOMAIN connection_metadata
         /\ ws \in connections_for(UserBefore(ws))
         /\ SameRooms(UserBefore(ws))

\* C18: inbound activity keeps a connection alive.  A connection whose last
\* inbound message is at most 300 s old is not removed by a sweep, even if
\* nothing was ever sent to it.
InboundKeepsAlive ==
  last.op = "reaper" =>
    \A ws \in DOMAIN Before.connection_metadata :
      (/\ Before.endpoint[ws].st = "open"
       /\ Before.now - Before.endpoint[ws].heard <= 300)
        => ws \in DOMAIN connection_metadata

\* the last step changed no room membership and no mailbox
RoomsAndMailboxesUnchanged ==
  /\ project_rooms = Before.project_rooms
  /\ offline_messages = Before.offline_messages

\* the sender of the last frame got exactly one error envelope, nobody else
\* got anything, and the sender's connection is open and registered
AnsweredWithError ==
  /\ Len(out[last.ws]) = 1
  /\ out[last.ws][1].type = "error"
  /\ \A c \in Conns \ {last.ws} : out[c] = <<>>
  /\ endpoint[last.ws].st = "open"
  /\ last.ws \in DOMAIN connection_metadata
  /\ last.ws \in connections_for(last.user_id)

\* C15: protocol errors are answered and survivable.  Every inbound frame that
\* is unparseable, has no type field, or has a type outside the recognized
\* set causes exactly one error envelope to the sender, leaves the connection
\* open and registered, and changes no room membership or mailbox.
ProtocolErrorsAnswered ==
  last.op \in {"invalid_json", "not_an_object", "unknown_type"} =>
    AnsweredWithError /\ RoomsAndMailboxesUnchanged

\* C15, for the frames json.loads or message.get rejects: this much holds
MalformedFramesAnswered ==
  last.op \in {"invalid_json", "not_an_object"} =>
    AnsweredWithError /\ RoomsAndMailboxesUnchanged

\* a state in which a frame that is not JSON was answered
MalformedFramesAnsweredWitness ==
  /\ last.op = "invalid_json"
  /\ AnsweredWithError
  /\ out[last.ws][1].data = "Invalid JSON format"
  /\ DOMAIN project_rooms # {}

\* C16: a join_project envelope that carries no room id is a handler-level
\* error: the sender receives an error envelope, the connection stays open,
\* and no room membership changes.
JoinWithoutRoomIsError ==
  (last.op = "join_project" /\ last.project_id = None) =>
    AnsweredWithError /\ project_rooms = Before.project_rooms

\* the notifications of one type naming user u that the last step sent to c
Notifications(c, type, u) ==
  SelectSeq(out[c], LAMBDA m : m.type = type /\ m.user_id = u)

\* the connections of the users in M that were live and sound before the step
SoundConnections(M) ==
  {c \in Conns : \E m \in M : c \in ConnectionsBefore(m) \ Before.broken}

\* the last step ran join_project_room(last.user_id, last.project_id)
Joined ==
  last.op \in {"join_project", "connect"} /\ last.project_id # None

\* C19: join(u, R) adds u to R's member set and emits one user_joined naming
\* u to every other member of R at that moment and never to u itself; joining
\* a room u is already in leaves the member set unchanged.
JoinNotifiesOthers ==
  Joined =>
    LET u == last.user_id
        R == last.project_id
    IN /\ (AllOnlineNoFailure(R) /\ last.exc = "none")
            => get_project_users(R) = MembersBefore(R) \cup {u}
       /\ \A c \in SoundConnections(MembersBefore(R) \ {u}) :
            Len(Notifications(c, "user_joined", u)) = 1
       /\ \A c \in Conns :
            ConnUser[c] = u => Notifications(c, "user_joined", u) = <<>>

\* C19, when every member of R is online and no send fails: this much holds
JoinNotifiesOthersWhenNoSendFails ==
  (Joined /\ AllOnlineNoFailure(last.project_id)) =>
    /\ last.exc = "none" =>
         get_project_users(last.project_id) =
           MembersBefore(last.project_id) \cup {last.user_id}
    /\ \A c \in SoundConnections(MembersBefore(last.project_id) \ {last.user_id}) :
         Len(Notifications(c, "user_joined", last.user_id)) = 1
    /\ \A c \in Conns :
         ConnUser[c] = last.user_id =>
           Notifications(c, "user_joined", last.user_id) = <<>>

\* a state in which A joined the room of B and C and both were notified
JoinNotifiesOthersWhenNoSendFailsWitness ==
  /\ last.op = "join_project"
  /\ MembersBefore(last.project_id) = Users \ {last.user_id}
  /\ AllOnlineNoFailure(last.project_id)
  /\ get_project_users(last.project_id) = Users
  /\ \A c \in SoundConnections(Users \ {last.user_id}) :
       Len(Notifications(c, "user_joined", last.user_id)) = 1

\* C20: leave(u, R) for a member u removes u from R; if R thereby becomes
\* empty the room entry is deleted and no notification is sent, otherwise
\* exactly the remaining members are sent user_left naming u.
LeaveNotifiesRemaining ==
  (last.op = "leave_project" /\ last.project_id # None
     /\ last.user_id \in MembersBefore(last.project_id)) =>
    LET u == last.user_id
        R == last.project_id
        remaining == MembersBefore(R) \ {u}
    IN /\ u \notin get_project_users(R)
       /\ remaining = {} =>
            /\ R \notin DOMAIN project_rooms
            /\ \A c \in Conns : Notifications(c, "user_left", u) = <<>>
       /\ remaining # {} =>
            /\ \A c \in SoundConnections(remaining) :
                 Len(Notifications(c, "user_left", u)) = 1
            /\ \A c \in Conns \ SoundConnections(remaining) :
                 Notifications(c, "user_left", u) = <<>>

\* C20, when every remaining member is online and no send fails: this much
\* holds
LeaveNotifiesRemainingWhenNoSendFails ==
  (last.op = "leave_project" /\ last.project_id # None
     /\ last.user_id \in MembersBefore(last.project_id)
     /\ AllOnlineNoFailure(last.project_id)) =>
    LET u == last.user_id
        R == last.project_id
        remaining == MembersBefore(R) \ {u}
    IN /\ u \notin get_project_users(R)
       /\ remaining = {} =>
            /\ R \notin DOMAIN project_rooms
            /\ \A c \in Conns : Notifications(c, "user_left", u) = <<>>
       /\ remaining # {} =>
            /\ get_project_users(R) = remaining
            /\ \A c \in SoundConnections(remaining) :
                 Len(Notifications(c, "user_left", u)) = 1
            /\ \A c \in Conns \ SoundConnections(remaining) :
                 Notifications(c, "user_left", u) = <<>>

\* a state in which A left the room of A, B and C and both were notified
LeaveNotifiesRemainingWhenNoSendFailsWitness ==
  /\ last.op = "leave_project"
  /\ MembersBefore(last.project_id) = Users
  /\ AllOnlineNoFailure(last.project_id)
  /\ get_project_users(last.project_id) = Users \ {last.user_id}
  /\ \A c \in SoundConnections(Users \ {last.user_id}) :
       Len(Notifications(c, "user_left", last.user_id)) = 1

(* ---------------------------------------------------------------------- *)
(* Overlapping coroutines                                                  *)
(* ---------------------------------------------------------------------- *)

\* the websocket of the step was in no set of active_connections before it:
\* a disconnect of it had already begun or ended
AlreadyRemoved ==
  \A u \in DOMAIN last.before.active_connections :
     last.ws \notin last.before.active_connections[u]

\* C12: a disconnect of a connection that another disconnect has already
\* removed, finished or still suspended, raises no error, leaves
\* active_connections and project_rooms as they were and sends no user_left;
\* and the disconnect that was suspended meanwhile ends without error.
DisconnectIdempotent ==
  /\ (last.op = "close" /\ AlreadyRemoved) =>
        /\ last.exc = "none"
        /\ active_connections = last.before.active_connections
        /\ project_rooms = last.before.project_rooms
        /\ \A c \in Conns : \A k \in 1..Len(out[c]) : out[c][k].type # "user_left"
  /\ last.op = "resume_disconnect" => last.exc = "none"

\* the message a frame carries: the queued message inside an offline_message
\* envelope, the frame itself otherwise
Orig(m) == IF m.type = "offline_message" THEN m.original_message ELSE m

\* C13: no connect fails for what another connect of the same user did to
\* the mailbox or the connection set, and a connection opened while the user
\* is already online receives no offline_message envelope.
FlushOnceOnComingOnline ==
  /\ last.op \in {"connect", "resume_connect"} =>
        last.exc \notin {"KeyError", "RuntimeError"}
  /\ (last.op = "connect" /\ last.user_id \in DOMAIN last.before.active_connections) =>
        \A k \in 1..Len(out[last.ws]) : out[last.ws][k].type # "offline_message"

\* C14: no websocket receives a later cursor update of a sender to a room
\* before it has received an earlier one (the payloads of the sender are
\* numbered in the order they were sent; a repeated delivery of the earlier
\* one is not counted).
PerSenderOrdering ==
  \A c \in Conns : \A i, j \in 1..Len(received[c]) :
     LET m2 == Orig(received[c][i])
         m1 == Orig(received[c][j])
     IN (/\ i < j
         /\ m1.type = "cursor_update" /\ m2.type = "cursor_update"
         /\ m1.user_id = m2.user_id /\ m1.project_id = m2.project_id
         /\ \A k \in 1..(i - 1) :
               ~(/\ Orig(received[c][k]).type = "cursor_update"
                 /\ Orig(received[c][k]).data = m1.data))
        => m2.data <= m1.data


(* ---------------------------------------------------------------------- *)
(* Ping, stats                                                             *)
(* ---------------------------------------------------------------------- *)

\* C21: a ping produces exactly one pong, sent only to the sending
\* connection and carrying the timestamp of the ping, changes no connection,
\* room or mailbox state and sends nothing to any other connection.
PingAnsweredDirectly ==
  last.op = "ping" =>
     /\ out[last.ws] = <<[type |-> "pong", user_id |-> None, project_id |-> None,
                          data |-> last.data, stored_at |-> FALSE]>>
     /\ \A c \in Conns \ {last.ws} : out[c] = <<>>
     /\ active_connections = last.before.active_connections
     /\ project_rooms = last.before.project_rooms
     /\ connection_metadata = last.before.connection_metadata
     /\ offline_messages = last.before.offline_messages
     /\ last.exc = "none"

\* a ping with a timestamp, sent by a member of a room that has another
\* member with a connection
PingAnsweredDirectlyWitness ==
  /\ last.op = "ping"
  /\ last.data = "t2"
  /\ \E p \in DOMAIN project_rooms :
        /\ ConnUser[last.ws] \in project_rooms[p]
        /\ \E u \in project_rooms[p] \ {ConnUser[last.ws]} :
              u \in DOMAIN active_connections


\* C22: the stats query changes no registry and returns the number of
\* registered connections, of online users, of rooms, each room's member
\* count and the number of non-empty offline mailboxes of the state it ran in.
StatsArePureRead ==
  last.op = "stats" =>
     /\ active_connections = last.before.active_connections
     /\ project_rooms = last.before.project_rooms
     /\ connection_metadata = last.before.connection_metadata
     /\ offline_messages = last.before.offline_messages
     /\ \A c \in Conns : out[c] = <<>>
     /\ last.data.total_connections =
           Cardinality({c \in Conns : \E u \in DOMAIN active_connections :
                                         c \in active_connections[u]})
     /\ last.data.active_users =
           Cardinality({u \in Users : u \in DOMAIN active_connections
                                      /\ active_connections[u] # {}})
     /\ last.data.project_rooms = Cardinality(DOMAIN project_rooms)
     /\ DOMAIN last.data.users_per_project = DOMAIN project_rooms
     /\ \A p \in DOMAIN project_rooms :
           last.data.users_per_project[p] =
              Cardinality({u \in Users : u \in project_rooms[p]})
     /\ last.data.offline_message_queues =
           Cardinality({u \in Users : u \in DOMAIN offline_messages
                                      /\ offline_messages[u] # <<>>})

\* stats taken while a user has two connections, a room has members and a
\* mailbox holds a message
StatsArePureReadWitness ==
  /\ last.op = "stats"
  /\ last.data.total_connections = 2
  /\ last.data.active_users = 1
  /\ last.data.project_rooms = 1
  /\ last.data.users_per_project["r1"] = 2
  /\ last.data.offline_message_queues = 1


\* C23: a broadcast that was suspended in a send is not aborted by what
\* other tasks did to the room or to the connection sets meanwhile, and every
\* websocket of its audience that stayed connected has received the message
\* when the broadcast ends.
BroadcastSnapshot ==
  [][(task.kind = "broadcast" /\ task'.kind = "none") =>
       /\ last'.exc = "none"
       /\ \A c \in task.audience :
             (c \in DOMAIN connection_metadata' /\ c \notin broken') =>
                \E k \in 1..Len(received'[c]) :
                   [received'[c][k] EXCEPT !.stored_at = FALSE] = task.loop_message
    ]_vars


\* C24: a frame read from a connection that has been removed from the
\* registry causes no broadcast, no room join or leave and no mailbox
\* enqueue.
ClosedIsTerminal ==
  (/\ last.op \in {"cursor_update", "wireframe_update", "join_project",
                   "leave_project"}
   /\ last.ws \notin DOMAIN last.before.connection_metadata) =>
     /\ \A c \in Conns \ {last.ws} : out[c] = <<>>
     /\ project_rooms = last.before.project_rooms
     /\ offline_messages = last.before.offline_messages


\* C25: every connection that has been idle for more than the threshold is
\* eventually removed from the registry (or is no longer idle).
ReaperLiveness ==
  \A ws \in Conns :
     (ws \in StaleConnections(Mgr)) ~> (ws \notin StaleConnections(Mgr))


(* ---------------------------------------------------------------------- *)
(* Termination of the flush                                                *)
(* ---------------------------------------------------------------------- *)

\* C26: the flush loop of send_offline_messages takes a bounded number of
\* turns for every mailbox of 1 to 50 messages: the list it iterates never
\* gets longer than 51 and the loop never takes more than 51 turns, also
\* when the only connection fails and the wrapped messages are stored into
\* the list that is being iterated.
FlushTurnsBounded ==
  task.kind = "flush" =>
     /\ Len(task.messages) <= OfflineLimit + 1
     /\ task.i <= Len(task.messages) + 1

\* the only connection has failed, the user is offline, and the re-stored
\* messages have made the iterated list longer than the mailbox may be
FlushTurnsBoundedWitness ==
  /\ task.kind = "flush"
  /\ task.user_id \notin DOMAIN active_connections
  /\ Len(task.messages) = OfflineLimit + 1
  /\ task.i = Len(task.messages) + 1

\* a flush that has begun ends
FlushTerminates == (task.kind = "flush") ~> (task.kind = "none")


\* C27: in every state another task can observe, a websocket has a metadata
\* entry if and only if it is in the connection set of the user its metadata
\* names.
RegistryConsistency ==
  /\ \A c \in DOMAIN connection_metadata :
        LET u == connection_metadata[c].user_id
        IN u \in DOMAIN active_connections /\ c \in active_connections[u]
  /\ \A u \in DOMAIN active_connections : \A c \in active_connections[u] :
        c \in DOMAIN connection_metadata /\ connection_metadata[c].user_id = u


\* C28: a leave_project frame that names a room the sender is not a member
\* of leaves every room's membership unchanged and sends no user_left
\* notification.
LeaveByNonMemberIsNoOp ==
  (/\ last.op = "leave_project"
   /\ last.project_id # None
   /\ \/ last.project_id \notin DOMAIN last.before.project_rooms
      \/ last.user_id \notin last.before.project_rooms[last.project_id]) =>
     /\ project_rooms = last.before.project_rooms
     /\ \A c \in Conns : \A k \in 1..Len(out[c]) : out[c][k].type # "user_left"

(* ---------------------------------------------------------------------- *)
(* Utilities                                                               *)
(* ---------------------------------------------------------------------- *)

\* C29: every call of AsyncRateLimiter.acquire eventually returns.
AcquireReturns ==
  \A k \in Callers :
     (acquirers[k].pc \in {"lock", "sleep"}) ~> (acquirers[k].pc = "returned")

\* C30: for max_attempts >= 1 retry_async calls func at most max_attempts
\* times; it returns the value of the first call that succeeds and calls no
\* more; after max_attempts failures of a listed type it raises the last
\* exception; an exception of a type that is not listed leaves it at once.
RetryBoundsAttempts ==
  /\ retry.pc \in {"loop", "sleep"} => retry.calls <= retry.max_attempts
  /\ retry.pc \in {"returned", "raised"} =>
        /\ retry.calls >= 1
        /\ retry.calls <= retry.max_attempts
        /\ \A i \in 1..(retry.calls - 1) : retry.outcomes[i] = "listed"
        /\ retry.result.call = retry.calls
        /\ retry.pc = "returned" =>
              /\ retry.outcomes[retry.calls] = "ok"
              /\ retry.result.kind = "value"
        /\ retry.pc = "raised" =>
              /\ retry.result.kind = "exception"
              /\ \/ retry.outcomes[retry.calls] = "other"
                 \/ /\ retry.outcomes[retry.calls] = "listed"
                    /\ retry.calls = retry.max_attempts

\* every attempt failed with a listed exception and the last one was raised
RetryBoundsAttemptsWitness ==
  /\ retry.pc = "raised"
  /\ retry.max_attempts = MaxAttempts
  /\ retry.calls = MaxAttempts
  /\ \A i \in 1..MaxAttempts : retry.outcomes[i] = "listed"
  /\ retry.result = [kind |-> "exception", call |-> MaxAttempts]

====
